---- MODULE Spec2Model ----
(***************************************************************************)
(* Model of rust_lib/src/lib.rs: the two exported functions add_numbers    *)
(* (i32 + i32) and factorial (product of 1..=n as u64), called from one or *)
(* several threads of a C caller.                                          *)
(*                                                                         *)
(* TLC's integers are 32 bits wide, so a 64-bit value is kept as a         *)
(* little-endian sequence of 16-bit limbs, and an exact (unbounded)        *)
(* natural as such a sequence of any length.                               *)
(*                                                                         *)
(* Rust's `+` and `*` on fixed-width integers (the latter reached through  *)
(* Iterator::product, which inherits the crate's overflow checks) wrap     *)
(* around when the crate is built without overflow checks (the release     *)
(* profile) and panic when it is built with them (the dev and test         *)
(* profiles).  A panic that leaves an extern "C" function aborts the       *)
(* process.  The build profile is the variable overflow_checks.            *)
(***************************************************************************)
EXTENDS Integers, Sequences, FiniteSets, TLC

VARIABLES overflow_checks, aborted, pc, a, b, n, range, acc, ret_i32, ret_u64

vars == <<overflow_checks, aborted, pc, a, b, n, range, acc, ret_i32, ret_u64>>

----------------------------------------------------------------------------
(* Bounds of the model *)

\* factorial is called with n in 0..MaxN
MaxN == 67
\* add_numbers is called with the values within EdgeWidth of each edge value
EdgeWidth == 2

----------------------------------------------------------------------------
(* Fixed-width integers *)

\* one limb holds 16 bits
Base == 2^16
HalfBase == 2^15

\* i32::MAX and i32::MIN
I32Max == (HalfBase - 1) * Base + (Base - 1)
I32Min == (-HalfBase) * Base

\* faulty variant: the product taken in u32 and widened afterwards
U64Limbs32 == 32 \div 16
\* the number of 16-bit limbs of the accumulator type of line 11 (u64)
U64Limbs == 64 \div 16

IsI32(x) == I32Min <= x /\ x <= I32Max

Threads == {"main", "worker"}
MainThread == "main"

\* the two's-complement bit pattern of an i32, as <<low limb, high limb>>
I32Bits(x) == <<x % Base, (x \div Base) % Base>>

\* the i32 a bit pattern stands for
I32FromBits(w) ==
    IF w[2] >= HalfBase THEN (w[2] - Base) * Base + w[1] ELSE w[2] * Base + w[1]

I32Sign(w) == w[2] >= HalfBase

\* the machine's 32-bit adder: the sum's bit pattern (carry out dropped) and
\* the signed-overflow flag
I32AddBits(x, y) ==
    LET lo == x[1] + y[1]
        hi == x[2] + y[2] + (lo \div Base)
        s  == <<lo % Base, hi % Base>>
    IN  [bits |-> s,
         overflow |-> (I32Sign(x) = I32Sign(y)) /\ (I32Sign(s) # I32Sign(x))]

\* `a + b` on i32 (line 3): panics on overflow when the crate is built with
\* overflow checks, wraps around otherwise
I32Add(checks, x, y) ==
    LET r == I32AddBits(I32Bits(x), I32Bits(y))
    IN  IF checks /\ r.overflow
        THEN [panic |-> TRUE, value |-> 0]
        ELSE [panic |-> FALSE, value |-> I32FromBits(r.bits)]

\* faulty variant: a + a
add_numbers_doubled(checks, x, y) == I32Add(checks, x, x)
\* pub extern "C" fn add_numbers(a: i32, b: i32) -> i32
add_numbers(checks, x, y) == I32Add(checks, x, y)

----------------------------------------------------------------------------
(* Limb arithmetic *)

\* the limbs of d * k + carry, for a limb sequence d and 0 <= carry, k < 2^15;
\* the result has one limb more than d while the value needs it
RECURSIVE LimbsMul(_, _, _)
LimbsMul(d, k, carry) ==
    IF d = <<>>
    THEN IF carry = 0 THEN <<>> ELSE <<carry>>
    ELSE LET p == d[1] * k + carry
         IN  <<p % Base>> \o LimbsMul(Tail(d), k, p \div Base)

LimbsAllZero(d) == \A j \in 1..Len(d) : d[j] = 0

\* a limb sequence cut or zero-extended to w limbs
LimbsResize(d, w) == [j \in 1..w |-> IF j <= Len(d) THEN d[j] ELSE 0]

\* the u64 of a small number: `as u64` (line 11)
U64Of(k) == LimbsResize(<<k % Base, k \div Base>>, U64Limbs)

U64One == U64Of(1)
U64Zero == U64Of(0)

\* `x * k` on u64, the closure of Iterator::product (line 11)
U64Mul(checks, x, k) ==
    LET full == LimbsMul(x, k, 0)
        over == Len(full) > U64Limbs
    IN  IF checks /\ over
        THEN [panic |-> TRUE, value |-> U64Zero]
        ELSE [panic |-> FALSE, value |-> LimbsResize(full, U64Limbs)]

----------------------------------------------------------------------------
(* factorial *)

\* the range 1..=n over u64 (line 11): RangeInclusive { start, end, exhausted }
RangeInclusive(lo, hi) == [start |-> lo, end |-> hi, exhausted |-> FALSE]

\* faulty variant: the range never advances
RangeNextStuck(r) ==
    IF r.exhausted \/ r.start > r.end
    THEN [some |-> FALSE, item |-> 0, range |-> r]
    ELSE [some |-> TRUE, item |-> r.start, range |-> r]
\* faulty variant: the exclusive range 1..n
RangeNextExclusive(r) ==
    IF r.exhausted \/ r.start >= r.end
    THEN [some |-> FALSE, item |-> 0, range |-> r]
    ELSE [some |-> TRUE, item |-> r.start,
          range |-> [r EXCEPT !.start = r.start + 1]]
\* RangeInclusive::next: the next item, if any, and the range after it
RangeNext(r) ==
    IF r.exhausted \/ r.start > r.end
    THEN [some |-> FALSE, item |-> 0, range |-> r]
    ELSE IF r.start < r.end
         THEN [some |-> TRUE, item |-> r.start,
               range |-> [r EXCEPT !.start = r.start + 1]]
         ELSE [some |-> TRUE, item |-> r.start,
               range |-> [r EXCEPT !.exhausted = TRUE]]

\* Iterator::product over what is left of the range r, from the accumulator x:
\* fold(1, |acc, k| acc * k)
RECURSIVE Product(_, _, _)
Product(checks, r, x) ==
    LET nx == RangeNext(r)
    IN  IF ~nx.some
        THEN [panic |-> FALSE, value |-> x]
        ELSE LET m == U64Mul(checks, x, nx.item)
             IN  IF m.panic THEN m ELSE Product(checks, nx.range, m.value)

\* faulty variant: the branch returns 0
BaseCaseZero == U64Zero
\* the value of the branch `if n <= 1 { 1 }` (lines 8-9)
BaseCase == U64One

\* pub extern "C" fn factorial(n: u32) -> u64
factorial(checks, k) ==
    IF k <= 1
    THEN [panic |-> FALSE, value |-> BaseCase]
    ELSE Product(checks, RangeInclusive(1, k), U64One)

\* (1..=n as u64).product() without the branch of line 8
PlainProduct(checks, k) == Product(checks, RangeInclusive(1, k), U64One)

----------------------------------------------------------------------------
(* The callers: each thread calls the two functions again and again *)

NoRange == RangeInclusive(1, 0)

\* faulty variant: the accumulator is a static shared by all calls
SharedFrame(t) == MainThread
\* the stack frame that holds thread t's accumulator: the fold's accumulator
\* is a local of the call (line 11)
Frame(t) == t

\* the arguments add_numbers is called with
AddInputs ==
    {I32Min + d : d \in 0..EdgeWidth} \cup {I32Max - d : d \in 0..EdgeWidth}
    \cup ((-EdgeWidth)..(EdgeWidth + 1))
    \cup {Base - 1, Base, 1 - Base, -Base}

\* the arguments factorial is called with
FactInputs == 0..MaxN

TypeOK ==
    /\ overflow_checks \in BOOLEAN
    /\ aborted \in BOOLEAN
    /\ pc \in [Threads -> {"idle", "add_numbers", "factorial", "product",
                           "add_returned", "factorial_returned",
                           "add_panicked", "factorial_panicked"}]
    /\ \A t \in Threads : IsI32(a[t]) /\ IsI32(b[t]) /\ IsI32(ret_i32[t])
    /\ n \in [Threads -> Nat]
    /\ \A t \in Threads : Len(acc[t]) = U64Limbs /\ Len(ret_u64[t]) = U64Limbs

Init ==
    /\ overflow_checks \in BOOLEAN
    /\ aborted = FALSE
    /\ pc = [t \in Threads |-> "idle"]
    /\ a = [t \in Threads |-> 0]
    /\ b = [t \in Threads |-> 0]
    /\ n = [t \in Threads |-> 0]
    /\ range = [t \in Threads |-> NoRange]
    /\ acc = [t \in Threads |-> U64Zero]
    /\ ret_i32 = [t \in Threads |-> 0]
    /\ ret_u64 = [t \in Threads |-> U64Zero]

\* the C caller calls add_numbers(x, y)
CallAdd(t, x, y) ==
    /\ ~aborted
    /\ pc[t] = "idle"
    /\ pc' = [pc EXCEPT ![t] = "add_numbers"]
    /\ a' = [a EXCEPT ![t] = x]
    /\ b' = [b EXCEPT ![t] = y]
    /\ UNCHANGED <<overflow_checks, aborted, n, range, acc, ret_i32, ret_u64>>

\* the body of add_numbers: a + b (line 3)
AddBody(t) ==
    /\ ~aborted
    /\ pc[t] = "add_numbers"
    /\ LET r == add_numbers(overflow_checks, a[t], b[t])
       IN  IF r.panic
           THEN /\ pc' = [pc EXCEPT ![t] = "add_panicked"]
                /\ aborted' = TRUE
                /\ UNCHANGED ret_i32
           ELSE /\ pc' = [pc EXCEPT ![t] = "add_returned"]
                /\ ret_i32' = [ret_i32 EXCEPT ![t] = r.value]
                /\ UNCHANGED aborted
    /\ UNCHANGED <<overflow_checks, a, b, n, range, acc, ret_u64>>

\* the C caller calls factorial(k)
CallFactorial(t, k) ==
    /\ ~aborted
    /\ pc[t] = "idle"
    /\ pc' = [pc EXCEPT ![t] = "factorial"]
    /\ n' = [n EXCEPT ![t] = k]
    /\ UNCHANGED <<overflow_checks, aborted, a, b, range, acc, ret_i32, ret_u64>>

\* the branch of factorial (lines 8-12): return 1, or start the product
FactorialBranch(t) ==
    /\ ~aborted
    /\ pc[t] = "factorial"
    /\ IF n[t] <= 1
       THEN /\ pc' = [pc EXCEPT ![t] = "factorial_returned"]
            /\ ret_u64' = [ret_u64 EXCEPT ![t] = BaseCase]
            /\ UNCHANGED <<range, acc>>
       ELSE /\ pc' = [pc EXCEPT ![t] = "product"]
            /\ range' = [range EXCEPT ![t] = RangeInclusive(1, n[t])]
            /\ acc' = [acc EXCEPT ![Frame(t)] = U64One]
            /\ UNCHANGED ret_u64
    /\ UNCHANGED <<overflow_checks, aborted, a, b, n, ret_i32>>

\* one round of the fold of Iterator::product (line 11): take the next item
\* of the range and multiply it in, or return the accumulator
ProductStep(t) ==
    /\ ~aborted
    /\ pc[t] = "product"
    /\ LET nx == RangeNext(range[t])
           m  == U64Mul(overflow_checks, acc[Frame(t)], nx.item)
       IN  IF ~nx.some
           THEN /\ pc' = [pc EXCEPT ![t] = "factorial_returned"]
                /\ ret_u64' = [ret_u64 EXCEPT ![t] = acc[Frame(t)]]
                /\ UNCHANGED <<aborted, range, acc>>
           ELSE IF m.panic
                THEN /\ pc' = [pc EXCEPT ![t] = "factorial_panicked"]
                     /\ aborted' = TRUE
                     /\ UNCHANGED <<range, acc, ret_u64>>
                ELSE /\ range' = [range EXCEPT ![t] = nx.range]
                     /\ acc' = [acc EXCEPT ![Frame(t)] = m.value]
                     /\ UNCHANGED <<aborted, pc, ret_u64>>
    /\ UNCHANGED <<overflow_checks, a, b, n, ret_i32>>

\* the caller takes the returned value; the call's frame is gone
Return(t) ==
    /\ ~aborted
    /\ pc[t] \in {"add_returned", "factorial_returned"}
    /\ pc' = [pc EXCEPT ![t] = "idle"]
    /\ a' = [a EXCEPT ![t] = 0]
    /\ b' = [b EXCEPT ![t] = 0]
    /\ n' = [n EXCEPT ![t] = 0]
    /\ range' = [range EXCEPT ![t] = NoRange]
    /\ acc' = [acc EXCEPT ![Frame(t)] = U64Zero]
    /\ ret_i32' = [ret_i32 EXCEPT ![t] = 0]
    /\ ret_u64' = [ret_u64 EXCEPT ![t] = U64Zero]
    /\ UNCHANGED <<overflow_checks, aborted>>

\* a step of a call in progress on thread t
Run(t) == AddBody(t) \/ FactorialBranch(t) \/ ProductStep(t)

\* one caller thread
Next ==
    \/ \E x, y \in AddInputs : CallAdd(MainThread, x, y)
    \/ AddBody(MainThread)
    \/ \E k \in FactInputs : CallFactorial(MainThread, k)
    \/ FactorialBranch(MainThread)
    \/ ProductStep(MainThread)
    \/ Return(MainThread)

Spec == Init /\ [][Next]_vars

\* a call in progress keeps running: it has no suspension point
FairSpec == Spec /\ WF_vars(Run(MainThread))

\* several caller threads, their steps interleaved
ConcAddInputs == {-1, 1, 2, I32Max, I32Min}
ConcFactInputs == {0, 1, 2, 3, 5, 21, 22}

NextConc ==
    \E t \in Threads :
        \/ \E x, y \in ConcAddInputs : CallAdd(t, x, y)
        \/ AddBody(t)
        \/ \E k \in ConcFactInputs : CallFactorial(t, k)
        \/ FactorialBranch(t)
        \/ ProductStep(t)
        \/ Return(t)

SpecConc == Init /\ [][NextConc]_vars

----------------------------------------------------------------------------
(* The mathematics the claims compare the code with *)

\* n! as an exact natural: limbs of any length, the top limb not 0
RECURSIVE ExactFactorial(_)
ExactFactorial(k) ==
    IF k = 0 THEN <<1>> ELSE LimbsMul(ExactFactorial(k - 1), k, 0)

\* a natural reduced modulo 2^64
Mod2to64(d) == LimbsResize(d, 4)

\* a limb sequence without its leading (most significant) zero limbs
RECURSIVE LimbsTrim(_)
LimbsTrim(d) ==
    IF d # <<>> /\ d[Len(d)] = 0 THEN LimbsTrim(SubSeq(d, 1, Len(d) - 1)) ELSE d

\* whether x + y, as a mathematical integer, is an i32
SumInRange(x, y) ==
    IF x >= 0 /\ y >= 0 THEN x <= I32Max - y
    ELSE IF x < 0 /\ y < 0 THEN x >= I32Min - y
    ELSE TRUE

\* x + y reduced modulo 2^32 into the i32 range
WrapSum(x, y) ==
    IF SumInRange(x, y) THEN x + y
    ELSE IF x >= 0 THEN (x + I32Min) + (y + I32Min)
    ELSE (x - I32Min) + (y - I32Min)

IsU64(d) == Len(d) = 4 /\ \A j \in 1..4 : d[j] \in 0..(Base - 1)

InCall(t) == pc[t] \in {"add_numbers", "factorial", "product"}
Ended(t) == pc[t] \in {"add_returned", "factorial_returned",
                       "add_panicked", "factorial_panicked"}

\* the multiplications the product of thread t has done
Multiplied(t) ==
    IF range[t].exhausted THEN range[t].start ELSE range[t].start - 1

----------------------------------------------------------------------------
(* The claims *)

\* C1: every call of add_numbers returns the sum of its arguments reduced
\* modulo 2^32 into the i32 range, and none traps.  Violated: built with
\* overflow checks, add_numbers(i32::MAX, 1) panics.
C1_AddWrapsSilently ==
    \A t \in Threads :
        /\ pc[t] # "add_panicked"
        /\ pc[t] = "add_returned" => ret_i32[t] = WrapSum(a[t], b[t])

\* C2: every call factorial(n) with n >= 21 returns n! modulo 2^64 and does
\* not trap.  Violated: built with overflow checks, factorial(21) panics.
C2_FactorialWrapsSilently ==
    \A t \in Threads :
        n[t] >= 21 =>
            /\ pc[t] # "factorial_panicked"
            /\ pc[t] = "factorial_returned" =>
                   ret_u64[t] = Mod2to64(ExactFactorial(n[t]))

\* C3: for n in 0..20, factorial(n) is the exact n!, no multiplication of the
\* product overflows (in either build), and the four tested values come out.
C3_ExactUpTo20 ==
    \A t \in Threads :
        n[t] <= 20 =>
            /\ pc[t] # "factorial_panicked"
            /\ pc[t] = "product" =>
                   /\ LimbsTrim(acc[Frame(t)]) = ExactFactorial(Multiplied(t))
                   /\ RangeNext(range[t]).some =>
                          Len(LimbsMul(acc[Frame(t)], RangeNext(range[t]).item, 0)) <= 4
            /\ pc[t] = "factorial_returned" =>
                   /\ LimbsTrim(ret_u64[t]) = ExactFactorial(n[t])
                   /\ n[t] \in {0, 1} => LimbsTrim(ret_u64[t]) = <<1>>
                   /\ n[t] = 5 => LimbsTrim(ret_u64[t]) = <<120>>
                   \* 3628800 = 55 * 65536 + 24320
                   /\ n[t] = 10 => LimbsTrim(ret_u64[t]) = <<24320, 55>>

\* 20! = 2432902008176640000 = 0x21C3_677C_82B4_0000, returned with overflow
\* checks on
C3_Witness ==
    /\ overflow_checks
    /\ pc[MainThread] = "factorial_returned"
    /\ n[MainThread] = 20
    /\ ret_u64[MainThread] = <<0, 33460, 26492, 8643>>

\* C4: when a + b is an i32, add_numbers(a, b) returns exactly a + b, in
\* either build; add_numbers(2, 3) = 5 and add_numbers(-1, 1) = 0.
C4_ExactSumInRange ==
    \A t \in Threads :
        (Ended(t) /\ pc[t] \in {"add_returned", "add_panicked"}
                  /\ SumInRange(a[t], b[t])) =>
            /\ pc[t] = "add_returned"
            /\ ret_i32[t] = a[t] + b[t]
            /\ (a[t] = 2 /\ b[t] = 3) => ret_i32[t] = 5
            /\ (a[t] = -1 /\ b[t] = 1) => ret_i32[t] = 0

C4_Witness ==
    /\ overflow_checks
    /\ pc[MainThread] = "add_returned"
    /\ a[MainThread] = I32Min
    /\ b[MainThread] = I32Max
    /\ ret_i32[MainThread] = -1

\* C5: no call of add_numbers or factorial panics or aborts the process.
\* Violated: built with overflow checks, an overflowing call panics, and the
\* panic leaving the extern "C" function aborts the process.
C5_NoCallFails ==
    /\ ~aborted
    /\ \A t \in Threads : pc[t] \notin {"add_panicked", "factorial_panicked"}

C7_Terminates ==
    /\ \A t \in Threads : InCall(t) ~> Ended(t)
    /\ [][\A t \in Threads : pc[t] = "add_numbers" /\ pc'[t] # pc[t]
                                 => Ended(t)']_vars
    /\ [](\A t \in Threads : pc[t] = "product" => Multiplied(t) <= n[t])

\* factorial(67) has returned after its 67 multiplications
C7_Witness ==
    /\ pc[MainThread] = "factorial_returned"
    /\ n[MainThread] = 67
    /\ range[MainThread].exhausted
    /\ Multiplied(MainThread) = 67

\* C8: factorial(n) ends as the plain product of 1..=n does, for n <= 1 too;
\* the product multiplies the items in increasing order, the accumulator
\* after k multiplications being the product of 1..=k, a u64.
C8_BranchEqualsPlainProduct ==
    \A t \in Threads :
        /\ pc[t] = "factorial_returned" =>
               LET r == PlainProduct(overflow_checks, n[t])
               IN  ~r.panic /\ ret_u64[t] = r.value /\ IsU64(ret_u64[t])
        /\ pc[t] = "factorial_panicked" =>
               PlainProduct(overflow_checks, n[t]).panic
        /\ pc[t] = "product" =>
               /\ IsU64(acc[Frame(t)])
               /\ Multiplied(t) <= n[t]
               /\ RangeNext(range[t]).some =>
                      RangeNext(range[t]).item = Multiplied(t) + 1
               /\ acc[Frame(t)]
                      = PlainProduct(overflow_checks, Multiplied(t)).value

\* factorial(0) has returned 1 through the branch
C8_Witness ==
    /\ pc[MainThread] = "factorial_returned"
    /\ n[MainThread] = 0
    /\ ret_u64[MainThread] = <<1, 0, 0, 0>>

\* C9: for n >= 1, factorial(n) returns n * factorial(n - 1) modulo 2^64.
\* Violated: built with overflow checks, factorial(20) returns and
\* factorial(21) panics.
C9_Recurrence ==
    \A t \in Threads :
        (n[t] >= 1 /\ pc[t] \in {"factorial_returned", "factorial_panicked"}) =>
            LET p == factorial(overflow_checks, n[t] - 1)
            IN  ~p.panic =>
                    /\ pc[t] = "factorial_returned"
                    /\ ret_u64[t] = Mod2to64(LimbsMul(p.value, n[t], 0))

\* C10: a returned factorial(n) is 0 exactly when n >= 66, and a product
\* whose accumulator is 0 keeps it 0 and returns 0.
C10_ZeroFrom66 ==
    /\ [](\A t \in Threads :
            pc[t] = "factorial_returned" =>
                (LimbsAllZero(ret_u64[t]) <=> n[t] >= 66))
    /\ [][\A t \in Threads :
            (pc[t] = "product" /\ LimbsAllZero(acc[Frame(t)])) =>
                /\ pc'[t] = "product" => LimbsAllZero(acc'[Frame(t)])
                /\ pc'[t] = "factorial_returned" => LimbsAllZero(ret_u64'[t])
                /\ pc'[t] \in {"product", "factorial_returned"}]_vars

\* factorial(66) has returned 0, built without overflow checks
C10_Witness ==
    /\ ~overflow_checks
    /\ pc[MainThread] = "factorial_returned"
    /\ n[MainThread] = 66
    /\ ret_u64[MainThread] = <<0, 0, 0, 0>>

====
